---- MODULE Spec2Model ----
(***************************************************************************)
(* click_mb_scanner.py: query of a CLICK PLC's Modbus coils and registers  *)
(* by memory type.  The model covers the static tables, the three ways the *)
(* query code is entered (main(), the module-level script, a direct call   *)
(* of get_coils/get_registers) and the read/print loops, one step per      *)
(* transport call and one step per print loop.                             *)
(*                                                                         *)
(* The Modbus client is the environment: a read of `count` objects at      *)
(* `addr` answers with the first n objects of that range, n chosen by the  *)
(* environment.  A returned object is a cell [addr, val]; val is the       *)
(* content of the PLC memory image at addr.                                *)
(***************************************************************************)
EXTENDS Integers, Sequences, FiniteSets

VARIABLES
    entry,       \* how the query code was entered: "main", "module" or "call"
    query_type,  \* the memory type asked for (sys.argv[2] / args.query_type)
    pc,          \* position of the program
    requests,    \* transport calls made so far: [fc, addr, count, got]
    r,           \* the last response (r.bits / r.registers): sequence of cells
    rfull,       \* the C branch's accumulated bits
    emitted,     \* lines printed so far: [inst, cells, val]
    name_cnt,    \* get_registers: the number printed after the type
    curr_block,  \* get_registers: offset of the block loop
    b,           \* get_registers: loop variable of the per-value loop
    unemitted,   \* cells received whose print loop has not yet run
    error        \* the exception that ended the program, or "none"

vars == <<entry, query_type, pc, requests, r, rfull, emitted, name_cnt,
          curr_block, b, unemitted, error>>

----------------------------------------------------------------------------
(* Bounds of the model.                                                    *)

\* Only the first ShortWindow transport calls of a query may be answered
\* with fewer objects than requested; later calls are answered in full.
ShortWindow == 2

\* The decoder is tried on every register value within WordBand of one of
\* the landmarks 0, 256, 32768 and 65535.
WordBand == 2

----------------------------------------------------------------------------
(* The static tables.                                                      *)

type_ranges ==
    [X0 |-> <<1, 36>>, X1 |-> <<1, 16>>, X2 |-> <<1, 16>>, X3 |-> <<1, 16>>,
     X4 |-> <<1, 16>>, X5 |-> <<1, 16>>, X6 |-> <<1, 16>>, X7 |-> <<1, 16>>,
     X8 |-> <<1, 16>>, Y0 |-> <<1, 36>>, Y1 |-> <<1, 16>>, Y2 |-> <<1, 16>>,
     Y3 |-> <<1, 16>>, Y4 |-> <<1, 16>>, Y5 |-> <<1, 16>>, Y6 |-> <<1, 16>>,
     Y7 |-> <<1, 16>>, Y8 |-> <<1, 16>>, C |-> <<1, 2000>>, T |-> <<1, 500>>,
     CT |-> <<1, 250>>, SC |-> <<1, 1000>>, DS |-> <<1, 4500>>,
     DD |-> <<1, 1000>>, DH |-> <<1, 500>>, DF |-> <<1, 500>>,
     XD |-> <<0, 8>>, YD |-> <<0, 8>>, TD |-> <<1, 500>>, CTD |-> <<1, 250>>,
     SD |-> <<1, 1000>>, TXT |-> <<1, 1000>>]

coil_start_addrs ==
    [X0 |-> 0, X1 |-> 32, X2 |-> 64, X3 |-> 96, X4 |-> 128, X5 |-> 160,
     X6 |-> 192, X7 |-> 224, X8 |-> 256, Y0 |-> 8192, Y1 |-> 8224,
     Y2 |-> 8256, Y3 |-> 8288, Y4 |-> 8320, Y5 |-> 8352, Y6 |-> 8384,
     Y7 |-> 8416, Y8 |-> 8448, C |-> 16384, T |-> 45056, CT |-> 49152,
     SC |-> 61440]

reg_start_addrs ==
    [DS |-> 0, DD |-> 16384, DH |-> 24576, DF |-> 28672, XD |-> 57344,
     YD |-> 57856, TD |-> 45056, CTD |-> 49152, SD |-> 61440, TXT |-> 36864]

reg_sizes ==
    [DS |-> 1, DD |-> 2, DH |-> 2, DF |-> 2, XD |-> 2, YD |-> 2, TD |-> 1,
     CTD |-> 2, SD |-> 1, TXT |-> 2]

coil_keys == DOMAIN coil_start_addrs

reg_keys == DOMAIN reg_start_addrs

\* A symbol that is in no table, as a query for it is typed on the command line.
UnknownTypes == {"ZZ"}

\* query_type[0] == 'X'
FirstIsX(qt) == qt \in {"X0", "X1", "X2", "X3", "X4", "X5", "X6", "X7", "X8", "XD"}

\* query_type[0] == 'X' or query_type[0] == 'Y'
FirstIsXorY(qt) ==
    \/ FirstIsX(qt)
    \/ qt \in {"Y0", "Y1", "Y2", "Y3", "Y4", "Y5", "Y6", "Y7", "Y8", "YD"}

\* query_type in ['DS', 'TD', 'SD', 'DH', 'TXT']
BlockTypes == {"DS", "TD", "SD", "DH", "TXT"}

\* query_type in ['DD', 'CTD', 'XD', 'YD']
IntPairTypes == {"DD", "CTD", "XD", "YD"}

block_size == 100

\* The literal 1000 of the C branch: the size of each of its two reads.
CReadCount == 1000

\* The literal 1000 of the C branch: the address of its second read.
CSecondAddr == 1000

----------------------------------------------------------------------------
(* The transport (pymodbus client), as the environment.                    *)

\* Content of the PLC memory image: the 16-bit word of a register, and its
\* low bit for a coil or discrete input.
MemWord(fc, addr) ==
    LET w == (addr * 30011 + 12345) % 65536
    IN  IF fc \in {"read_coils", "read_discrete_inputs"} THEN w % 2 ELSE w

\* The first n objects of the range starting at addr.
Response(fc, addr, n) ==
    [k \in 1..n |-> [addr |-> addr + k - 1, val |-> MemWord(fc, addr + k - 1)]]

\* The lengths a response to a request of `count` objects may have.
ResponseLens(count) ==
    IF Len(requests) < ShortWindow THEN {count, count - 1, 0} ELSE {count}

Request(fc, addr, count, got) ==
    [fc |-> fc, addr |-> addr, count |-> count, got |-> got]

----------------------------------------------------------------------------
(* Decoding.                                                               *)

\* reg_val.to_bytes(2, 'big')
ToBytes2(w) == <<w \div 256, w % 256>>

\* a = [v for reg_val in bl for v in reg_val.to_bytes(2, 'big')]
RECURSIVE RegBytes(_)
RegBytes(bl) ==
    IF bl = <<>> THEN <<>> ELSE ToBytes2(Head(bl)) \o RegBytes(Tail(bl))

\* Python integers are unbounded and a decoded value reaches 2^32 - 1; the
\* number q * 65536 + rem, 0 <= rem < 65536, is kept as the pair [q, rem].
Num(q, rem) == [q |-> q, rem |-> rem]

\* n * 256 + byte, on the pair.
ShiftIn(n, byte) ==
    LET t == n.rem * 256 + byte
    IN  Num(n.q * 256 + t \div 65536, t % 65536)

\* Mutant of FromBytesBig: the bytes taken low-order first.
RECURSIVE FromBytesLittle(_)
FromBytesLittle(a) ==
    IF a = <<>> THEN Num(0, 0)
    ELSE ShiftIn(FromBytesLittle(Tail(a)), Head(a))

\* int.from_bytes(a, 'big', signed=False)
RECURSIVE FromBytesBig(_)
FromBytesBig(a) ==
    IF a = <<>> THEN Num(0, 0)
    ELSE ShiftIn(FromBytesBig(SubSeq(a, 1, Len(a) - 1)), a[Len(a)])

\* struct.unpack('>f', bytearray(a))[0]: defined for exactly four bytes; the
\* float is kept as its sign, biased exponent and fraction fields.
UnpackFloatOk(a) == Len(a) = 4

UnpackFloat(a) ==
    [sign |-> a[1] \div 128,
     exp  |-> (a[1] % 128) * 2 + a[2] \div 128,
     frac |-> (a[2] % 128) * 65536 + a[3] * 256 + a[4]]

Vals(cells) == [k \in 1..Len(cells) |-> cells[k].val]

Line(inst, cells, val) == [inst |-> inst, cells |-> cells, val |-> val]

----------------------------------------------------------------------------
(* Entering the query code.                                                *)

Symbols == DOMAIN type_ranges

Init ==
    /\ entry \in {"main", "module", "call"}
    /\ query_type \in Symbols \cup UnknownTypes
    /\ entry = "call" => query_type \in coil_keys \cup reg_keys
    /\ pc = entry
    /\ requests = <<>>
    /\ r = <<>>
    /\ rfull = <<>>
    /\ emitted = <<>>
    /\ name_cnt = 0
    /\ curr_block = 0
    /\ b = 0
    /\ unemitted = 0
    /\ error = "none"

\* The branch a known query type takes: the position of its first read.
FirstRead(qt) ==
    IF qt \in coil_keys
    THEN (IF qt = "C" THEN "c_read1" ELSE "coil_read")
    ELSE (IF qt \in BlockTypes THEN "blk_read" ELSE "val_read")

\* start of get_coils / get_registers and of the module-level branches:
\* name_cnt = type_ranges[query_type][0], curr_block = 0, b = range start.
Dispatch ==
    IF query_type \in coil_keys \cup reg_keys
    THEN /\ pc' = FirstRead(query_type)
         /\ name_cnt' = IF query_type \in reg_keys
                         THEN type_ranges[query_type][1] ELSE name_cnt
         /\ b' = IF query_type \in reg_keys
                  THEN type_ranges[query_type][1] ELSE b
         /\ curr_block' = 0
    ELSE /\ pc' = "done"
         /\ UNCHANGED <<name_cnt, b, curr_block>>

\* main(), run first when the file is executed.  For a type of either table
\* the call get_coils(client, query_type) names the global query_type, which
\* the module binds only later: NameError; the except clauses then name
\* ConnectionException, which is never imported, and the program ends with
\* the traceback.  For any other type main() returns and the module-level
\* code runs.
Main ==
    /\ pc = "main"
    /\ IF query_type \in coil_keys \cup reg_keys
       THEN pc' = "crashed" /\ error' = "NameError"
       ELSE pc' = "module" /\ error' = error
    /\ UNCHANGED <<entry, query_type, requests, r, rfull, emitted, name_cnt,
                   curr_block, b, unemitted>>

\* The module-level code after the command line is read.
ModuleLevel ==
    /\ pc = "module"
    /\ Dispatch
    /\ UNCHANGED <<entry, query_type, requests, r, rfull, emitted, unemitted,
                   error>>

\* get_coils(client, query_type) / get_registers(client, query_type) called
\* with a type of its table.
Call ==
    /\ pc = "call"
    /\ Dispatch
    /\ UNCHANGED <<entry, query_type, requests, r, rfull, emitted, unemitted,
                   error>>

----------------------------------------------------------------------------
(* Coils.                                                                  *)

count == type_ranges[query_type][2]

\* rfull.extend(client.read_coils(start_addr, 1000).bits)
ReadC1 ==
    /\ pc = "c_read1"
    /\ \E n \in ResponseLens(CReadCount) :
         LET fc   == "read_coils"
             addr == coil_start_addrs[query_type]
         IN  /\ requests' = Append(requests, Request(fc, addr, CReadCount, n))
             /\ r' = Response(fc, addr, n)
             /\ rfull' = rfull \o Response(fc, addr, n)
             /\ unemitted' = unemitted + n
    /\ pc' = "c_read2"
    /\ UNCHANGED <<entry, query_type, emitted, name_cnt, curr_block, b, error>>

\* rfull.extend(client.read_coils(1000, 1000).bits)
ReadC2 ==
    /\ pc = "c_read2"
    /\ \E n \in ResponseLens(CReadCount) :
         LET fc   == "read_coils"
             addr == CSecondAddr
         IN  /\ requests' = Append(requests, Request(fc, addr, CReadCount, n))
             /\ r' = Response(fc, addr, n)
             /\ rfull' = rfull \o Response(fc, addr, n)
             /\ unemitted' = unemitted + n
    /\ pc' = "c_emit"
    /\ UNCHANGED <<entry, query_type, emitted, name_cnt, curr_block, b, error>>

\* for e in range(len(rfull)): print(f'{query_type}{e+1} : {rfull[e]}')
EmitC ==
    /\ pc = "c_emit"
    /\ emitted' = emitted \o
           [k \in 1..Len(rfull) |-> Line(k, <<rfull[k]>>, rfull[k].val)]
    /\ unemitted' = 0
    /\ pc' = "done"
    /\ UNCHANGED <<entry, query_type, requests, r, rfull, name_cnt, curr_block,
                   b, error>>

\* The object class of a coil read other than C's.
CoilFc(qt) == IF FirstIsX(qt) THEN "read_discrete_inputs" ELSE "read_coils"

\* count = type_ranges[query_type][1]
CoilCount(qt) == type_ranges[qt][2]

\* r = client.read_discrete_inputs(start_addr, count) or
\* r = client.read_coils(start_addr, count)
ReadCoils ==
    /\ pc = "coil_read"
    /\ \E n \in ResponseLens(CoilCount(query_type)) :
         LET fc   == CoilFc(query_type)
             addr == coil_start_addrs[query_type]
         IN  /\ requests' = Append(requests,
                                   Request(fc, addr, CoilCount(query_type), n))
             /\ r' = Response(fc, addr, n)
             /\ unemitted' = unemitted + n
    /\ pc' = "coil_emit"
    /\ UNCHANGED <<entry, query_type, rfull, emitted, name_cnt, curr_block, b,
                   error>>

\* First value of the print loop's b: range(count) in get_coils,
\* range(1, count) in the module-level code.
CoilFirst == IF entry = "call" THEN 0 ELSE 1

\* for b in range(..): print(f'{query_type}{b} : {r.bits[b]}'); r.bits[b] with
\* b past the end of a short response raises IndexError after the lines
\* before it are printed.
EmitCoils ==
    /\ pc = "coil_emit"
    /\ LET last == IF Len(r) < count THEN Len(r) - 1 ELSE count - 1
           n    == IF last >= CoilFirst THEN last - CoilFirst + 1 ELSE 0
       IN  /\ emitted' = emitted \o
                  [k \in 1..n |-> Line(CoilFirst + k - 1,
                                       <<r[CoilFirst + k]>>,
                                       r[CoilFirst + k].val)]
           /\ IF Len(r) < count /\ CoilFirst <= count - 1
              THEN pc' = "crashed" /\ error' = "IndexError"
              ELSE pc' = "done" /\ error' = error
    /\ unemitted' = 0
    /\ UNCHANGED <<entry, query_type, requests, r, rfull, name_cnt, curr_block,
                   b>>

----------------------------------------------------------------------------
(* Registers read in blocks: DS, TD, SD, DH, TXT.                          *)

\* Mutant of BlockReadNext: the next block is read before this one is printed.
BlockReadAhead(cb, cnt) ==
    IF cb + block_size <= cnt
    THEN [pc |-> "blk_read", curr_block |-> cb + block_size]
    ELSE [pc |-> "blk_emit", curr_block |-> cb]

\* After r = client.read_holding_registers(..) the loop body goes on to
\* print r.registers, with curr_block as it is.
BlockReadNext(cb, cnt) == [pc |-> "blk_emit", curr_block |-> cb]

\* r = client.read_holding_registers(start_addr + curr_block, block_size)
ReadBlock ==
    /\ pc = "blk_read"
    /\ \E n \in ResponseLens(block_size) :
         LET fc   == "read_holding_registers"
             addr == reg_start_addrs[query_type] + curr_block
         IN  /\ requests' = Append(requests, Request(fc, addr, block_size, n))
             /\ r' = Response(fc, addr, n)
             /\ unemitted' = unemitted + n
    /\ pc' = BlockReadNext(curr_block, count).pc
    /\ curr_block' = BlockReadNext(curr_block, count).curr_block
    /\ UNCHANGED <<entry, query_type, rfull, emitted, name_cnt, b, error>>

\* if r.registers: for br in r.registers: print(f'{query_type}{name_cnt} :
\* {br}'); name_cnt += 1.  Then curr_block += block_size and the test
\* curr_block <= count of the while loop.
EmitBlock ==
    /\ pc = "blk_emit"
    /\ emitted' = emitted \o
           [k \in 1..Len(r) |-> Line(name_cnt + k - 1, <<r[k]>>, r[k].val)]
    /\ name_cnt' = name_cnt + Len(r)
    /\ curr_block' = curr_block + block_size
    /\ pc' = IF curr_block + block_size <= count THEN "blk_read" ELSE "done"
    /\ unemitted' = 0
    /\ UNCHANGED <<entry, query_type, requests, r, rfull, b, error>>

----------------------------------------------------------------------------
(* Registers read value by value: DD, CTD, DF, XD, YD.                     *)

\* The object class of a per-value read.
ValueFc(qt) ==
    IF qt = "XD" THEN "read_input_registers" ELSE "read_holding_registers"

\* Mutant of ValueCount: one register read per value.
ValueCountOne(qt) == 1

\* reg_sizes[query_type], the count of a per-value read.
ValueCount(qt) == reg_sizes[qt]

\* r = client.read_input_registers(start_addr + b, reg_sizes[query_type]) or
\* r = client.read_holding_registers(start_addr + b, reg_sizes[query_type])
ReadValue ==
    /\ pc = "val_read"
    /\ \E n \in ResponseLens(ValueCount(query_type)) :
         LET fc   == ValueFc(query_type)
             addr == reg_start_addrs[query_type] + b
         IN  /\ requests' = Append(requests,
                                   Request(fc, addr, ValueCount(query_type), n))
             /\ r' = Response(fc, addr, n)
             /\ unemitted' = unemitted + n
    /\ pc' = "val_emit"
    /\ UNCHANGED <<entry, query_type, rfull, emitted, name_cnt, curr_block, b,
                   error>>

\* rn = int.from_bytes(a, 'big', signed=False) over the bytes of r.registers
DecodeInt(cells) == FromBytesBig(RegBytes(Vals(cells)))

\* if r.registers: the value is decoded and printed under name_cnt (a DF
\* response that is not four bytes long makes struct.unpack raise
\* struct.error); then name_cnt += 1 and the for loop steps b by
\* reg_sizes[query_type] up to count.
EmitValue ==
    /\ pc = "val_emit"
    /\ LET bytes  == RegBytes(Vals(r))
           raises == r # <<>> /\ query_type = "DF" /\ ~UnpackFloatOk(bytes)
       IN  IF raises
           THEN /\ pc' = "crashed"
                /\ error' = "struct.error"
                /\ UNCHANGED <<emitted, name_cnt, b>>
           ELSE /\ emitted' =
                     IF r = <<>> THEN emitted
                     ELSE IF query_type \in IntPairTypes
                          THEN Append(emitted, Line(name_cnt, r, DecodeInt(r)))
                     ELSE IF query_type = "DF"
                          THEN Append(emitted,
                                      Line(name_cnt, r, UnpackFloat(bytes)))
                     ELSE emitted
                /\ name_cnt' = name_cnt + 1
                /\ b' = b + reg_sizes[query_type]
                /\ pc' = IF b + reg_sizes[query_type] <= count
                         THEN "val_read" ELSE "done"
                /\ error' = error
    /\ unemitted' = 0
    /\ UNCHANGED <<entry, query_type, requests, r, rfull, curr_block>>

----------------------------------------------------------------------------
(* The program.                                                            *)

Next ==
    \/ Main
    \/ ModuleLevel
    \/ Call
    \/ ReadC1
    \/ ReadC2
    \/ EmitC
    \/ ReadCoils
    \/ EmitCoils
    \/ ReadBlock
    \/ EmitBlock
    \/ ReadValue
    \/ EmitValue

Spec == Init /\ [][Next]_vars

----------------------------------------------------------------------------
(* The decoder on its own: the state after the first read of a DD, CTD, XD *)
(* or YD query was answered with the two registers hi, lo.                 *)

Landmarks == {0, 256, 32768, 65535}

WordSamples ==
    {w \in 0..65535 :
        \E m \in Landmarks : w - m <= WordBand /\ m - w <= WordBand}

InitDecode ==
    /\ entry \in {"module", "call"}
    /\ query_type \in IntPairTypes
    /\ pc = "val_emit"
    /\ \E hi \in WordSamples, lo \in WordSamples :
         LET addr == reg_start_addrs[query_type] + type_ranges[query_type][1]
         IN  /\ requests = <<Request(ValueFc(query_type), addr,
                                     ValueCount(query_type), 2)>>
             /\ r = <<[addr |-> addr, val |-> hi],
                      [addr |-> addr + 1, val |-> lo]>>
    /\ rfull = <<>>
    /\ emitted = <<>>
    /\ name_cnt = type_ranges[query_type][1]
    /\ curr_block = 0
    /\ b = type_ranges[query_type][1]
    /\ unemitted = 2
    /\ error = "none"

NextDecode == EmitValue

SpecDecode == InitDecode /\ [][NextDecode]_vars

----------------------------------------------------------------------------
(* Notions of the specification used to state the properties.              *)

Known == query_type \in coil_keys \cup reg_keys

Finished == pc \in {"done", "crashed"}

\* Every transport call so far returned as many objects as it asked for.
AllFull == \A k \in 1..Len(requests) : requests[k].got = requests[k].count

InstanceRange(qt) == type_ranges[qt][1] .. type_ranges[qt][2]

IndexOrigin(qt) == type_ranges[qt][1]

BaseAddress(qt) ==
    IF qt \in coil_keys THEN coil_start_addrs[qt] ELSE reg_start_addrs[qt]

\* wordsPerValue: 2 for the values that span two registers, 1 otherwise.
WordsPerValue(qt) ==
    IF qt \in {"DD", "CTD", "DF", "XD", "YD"} THEN 2 ELSE 1

\* The address the resolver formula gives for instance i.
ResolvedAddress(qt, i) ==
    BaseAddress(qt) + (i - IndexOrigin(qt)) * WordsPerValue(qt)

CoilClass == {"read_coils", "read_discrete_inputs"}

----------------------------------------------------------------------------
(* The properties.                                                         *)

\* C1: with full-length responses, the instances a finished query of a
\* catalogued type printed are exactly the catalogued range [min, max],
\* each once.
C1_ExactCoverage ==
    (pc = "done" /\ Known /\ AllFull) =>
        /\ {emitted[k].inst : k \in 1..Len(emitted)} = InstanceRange(query_type)
        /\ Len(emitted) = Cardinality(InstanceRange(query_type))

\* C2: a C query makes exactly two coil reads of 1000, the second starting
\* 1000 after the first, and prints C1..C2000 with Ck the bit at
\* baseAddress(C) + (k - 1).
C2_TwoContiguousBlocks ==
    (pc = "done" /\ query_type = "C" /\ AllFull) =>
        /\ Len(requests) = 2
        /\ \A k \in 1..2 : /\ requests[k].fc = "read_coils"
                            /\ requests[k].count = 1000
        /\ requests[2].addr = requests[1].addr + 1000
        /\ Len(emitted) = 2000
        /\ \A k \in 1..Len(emitted) :
              /\ emitted[k].inst = k
              /\ emitted[k].cells[1].addr = BaseAddress("C") + (k - 1)

\* C3: a query for a type of neither table makes no transport call and
\* ends with UnknownMemoryType.
C3_UnknownTypeFails ==
    ~Known =>
        /\ requests = <<>>
        /\ Finished => error = "UnknownMemoryType"

\* C4: in a DF query, a read answered with one register instead of two
\* prints no value for that request, is signalled as PartialResult and does
\* not crash the query.
C4_ShortFloatReadIsPartial ==
    \A k \in 1..Len(requests) :
        ( /\ query_type = "DF"
          /\ requests[k].got = requests[k].count - 1
          /\ (k < Len(requests) \/ pc # "val_emit") ) =>
            /\ pc # "crashed"
            /\ error = "PartialResult"
            /\ \A j \in 1..Len(emitted) :
                  emitted[j].cells[1].addr # requests[k].addr

\* C5: the value printed for the two registers [hi, lo] of a DD, CTD, XD or
\* YD instance is hi * 65536 + lo.
C5_HighWordFirst ==
    \A k \in 1..Len(emitted) :
        (query_type \in IntPairTypes /\ Len(emitted[k].cells) = 2) =>
            emitted[k].val = Num(emitted[k].cells[1].val, emitted[k].cells[2].val)

\* C5 witness: the registers [1, 0] were printed as 65536 = 1 * 65536 + 0.
C5_Witness ==
    /\ query_type \in IntPairTypes
    /\ Len(emitted) = 1
    /\ Vals(emitted[1].cells) = <<1, 0>>
    /\ emitted[1].val = Num(1, 0)

\* C6: with full-length responses, the value printed under <type><i> was
\* read from the address the resolver formula gives for instance i.
C6_LabelMatchesAddress ==
    (Known /\ AllFull) =>
        \A k \in 1..Len(emitted) :
            emitted[k].cells[1].addr = ResolvedAddress(query_type, emitted[k].inst)

\* C7: every read has a count within the limit of its kind: at most 1000
\* for coils and discrete inputs, exactly 100 for the block reads of DS, TD,
\* SD, DH and TXT, exactly wordsPerValue for the reads of DD, CTD, DF, XD, YD.
C7_CountsWithinLimit ==
    \A k \in 1..Len(requests) :
        /\ requests[k].fc \in CoilClass => requests[k].count <= 1000
        /\ query_type \in BlockTypes => requests[k].count = 100
        /\ query_type \in {"DD", "CTD", "DF", "XD", "YD"} =>
              requests[k].count = WordsPerValue(query_type)

\* C7 witness: a per-value query has run to its end, and so has made all
\* of its reads.
C7_Witness ==
    /\ pc = "done"
    /\ query_type = "CTD"
    /\ Len(requests) > 100

\* C8: every value printed for DD, CTD, XD or YD was built from exactly two
\* registers; a read answered with fewer prints nothing.
C8_NoTruncatedPair ==
    query_type \in IntPairTypes =>
        \A k \in 1..Len(emitted) : Len(emitted[k].cells) = 2

\* Positions at which the next step is a transport call.
AtRead == pc \in {"c_read1", "c_read2", "coil_read", "blk_read", "val_read"}

\* C9 (as stated): no read is issued while values of an earlier read are
\* still unprinted, in any query, the two-block C query included.
C9_EmitBeforeNextRead == AtRead => unemitted = 0

\* C9 (amended): in every query but C no read is issued while values of an
\* earlier read are still unprinted; the C query issues both of its reads
\* before it prints anything.
C9_EmitBeforeNextReadExceptC ==
    AtRead =>
        /\ query_type # "C" => unemitted = 0
        /\ query_type = "C" => emitted = <<>>

\* C9 witness: a block query is about to issue its second read and the
\* first block's values are printed.
C9_Witness ==
    /\ query_type \in BlockTypes
    /\ pc = "blk_read"
    /\ Len(requests) = 1
    /\ Len(emitted) = block_size

\* C10: in a block query every printed pair (i, v) has v read from
\* baseAddress + (i - 1), whatever the lengths of the responses.
C10_ShortBlockKeepsLabels ==
    query_type \in BlockTypes =>
        \A k \in 1..Len(emitted) :
            /\ emitted[k].cells[1].addr = BaseAddress(query_type) + (emitted[k].inst - 1)
            /\ emitted[k].val =
                  MemWord("read_holding_registers",
                          BaseAddress(query_type) + (emitted[k].inst - 1))

====
